---- MODULE Spec2Model ----
(***************************************************************************)
(* Direct-message chat server (socket.io handlers over JSON files).        *)
(*                                                                         *)
(* Every socket.io handler of the server is synchronous: it reads the JSON *)
(* store with readFileSync, changes the parsed object, writes it back with *)
(* writeFileSync/renameSync and emits its events before it returns.  Node  *)
(* runs one handler at a time, so a handler is one atomic action and two   *)
(* requests issued concurrently are handled in either order.               *)
(*                                                                         *)
(* Strings that the code sorts, joins or searches (usernames, room ids)    *)
(* are sequences of character codes; opaque strings (text, media, event    *)
(* names) are TLA+ strings.                                                *)
(***************************************************************************)
EXTENDS Integers, Sequences, FiniteSets, TLC

(* ------------------------------ bounds -------------------------------- *)
MaxClock == 1
MaxSends == 2
MaxSockets == 2
MaxNameLen == 3
MaxSignupLen == 2

\* items in the array a data file holds
MaxItems == 2

\* register requests received
MaxRequests == 3

(* --------------------------- input domains ---------------------------- *)
UserA == <<97>>
UserB == <<98>>
\* a third registered user, for chat lists with two peers
UserC == <<99>>

Users == {UserA, UserB}
Null == "null"
Empty == <<>>
\* {text, media} as a client sends them: the first has neither
Contents == {<<"", Null>>, <<"hi", Null>>, <<"", "img">>}
Rand == {0, 1}
SocketIds == 1..MaxSockets

\* usernames accepted by validateUserInput: /^[a-zA-Z0-9_]+$/, length >= 3
MinNameLen == 3

NameChars == {65, 95, 97}

Names == UNION {[1..n -> NameChars] : n \in MinNameLen..MaxNameLen}

\* usernames accepted by the signup route that checks only !username
SignupChars == {58, 97}

SignupNames == UNION {[1..n -> SignupChars] : n \in 1..MaxSignupLen}

VARIABLES
  now,          \* Date.now()
  messages,     \* messages.json: roomId -> array of message objects
  lastSeen,     \* last_seen.json: username -> timestamp
  chats,        \* chats.json: username -> array of chat summaries
  activeUsers,  \* Map username -> {socketId, status}
  userSockets,  \* Map username -> socketId
  sockets,      \* connected sockets: socket.id -> socket.user.username
  rooms,        \* socket.id -> set of rooms the socket joined
  nextId,       \* number of ids handed out by generateId
  emitted,      \* events emitted by the handler that ran last
  lastOp,       \* the handler that ran last: its request and its callback value
  sentLog,      \* roomId -> messages acknowledged with success, in call order
  files,        \* the data directory: file path -> text of the file
  call,         \* the fileDB call made last: its arguments and its outcome
  users,        \* users.json: array of user records
  requests      \* HTTP requests in flight: request id -> its position and locals

vars == <<now, messages, lastSeen, chats, activeUsers, userSockets, sockets,
          rooms, nextId, emitted, lastOp, sentLog, files, call, users, requests>>

\* the state of the file helpers and of the HTTP routes
storeVars == <<files, call, users, requests>>

(* ------------------------- JavaScript helpers ------------------------- *)
EmptyMap == [k \in {} |-> {}]

Has(m, k) == k \in DOMAIN m

Put(m, k, v) == [x \in (DOMAIN m) \cup {k} |-> IF x = k THEN v ELSE m[x]]

Del(m, k) == [x \in (DOMAIN m) \ {k} |-> m[x]]

GetOr(m, k, d) == IF k \in DOMAIN m THEN m[k] ELSE d

Includes(arr, x) == \E i \in 1..Len(arr) : arr[i] = x

RECURSIVE StrLess(_, _)
StrLess(s, t) ==
  IF s = <<>> THEN t # <<>>
  ELSE IF t = <<>> THEN FALSE
  ELSE IF Head(s) # Head(t) THEN Head(s) < Head(t)
  ELSE StrLess(Tail(s), Tail(t))

\* the array left as it was given: no sort
SortPairUnsorted(u1, u2) == <<u1, u2>>

\* [user1, user2].sort(): string comparison by code units
SortPair(u1, u2) == IF StrLess(u2, u1) THEN <<u2, u1>> ELSE <<u1, u2>>

getRoomId(user1, user2) ==
  LET sortedUsers == SortPair(user1, user2)
  IN  <<100, 109, 58>> \o sortedUsers[1] \o <<58, 58>> \o sortedUsers[2]

RoomIds == {getRoomId(u, v) : u \in Users, v \in Users}

\* JavaScript truthiness of an opaque string (text, media) and of a name
Truthy(s) == s # "" /\ s # Null

TruthyName(u) == u # Empty

(* ------------------------------- state -------------------------------- *)
NoOp == [op |-> "none"]

Init ==
  /\ files = EmptyMap
  /\ call = NoOp
  /\ users = <<>>
  /\ requests = EmptyMap
  /\ now = 0
  /\ messages = EmptyMap
  /\ lastSeen = EmptyMap
  /\ chats = EmptyMap
  /\ activeUsers = EmptyMap
  /\ userSockets = EmptyMap
  /\ sockets = EmptyMap
  /\ rooms = EmptyMap
  /\ nextId = 0
  /\ emitted = {}
  /\ lastOp = NoOp
  /\ sentLog = EmptyMap

Tick ==
  /\ UNCHANGED storeVars
  /\ now < MaxClock
  /\ now' = now + 1
  /\ UNCHANGED <<messages, lastSeen, chats, activeUsers, userSockets, sockets,
                 rooms, nextId, emitted, lastOp, sentLog>>

(* ------------------------ socket.io primitives ------------------------ *)
\* io.to(room).emit(ev, data): every connected socket that joined the room
ToRoom(room, ev, data) ==
  {[to |-> s, ev |-> ev, data |-> data] :
     s \in {x \in DOMAIN sockets : room \in rooms[x]}}

\* io.to(socketId).emit(ev, data): a socket is in the room named by its id
ToSocket(sid, ev, data) ==
  {[to |-> s, ev |-> ev, data |-> data] : s \in {x \in DOMAIN sockets : x = sid}}

\* socket.broadcast.emit(ev, data): every connected socket but the sender
Broadcast(self, live, ev, data) ==
  {[to |-> s, ev |-> ev, data |-> data] : s \in (live \ {self})}

(* ------------------------------ presence ------------------------------ *)
\* io.on('connection'): activeUsers.set(username, ...) and the online event
Connection(s, username) ==
  /\ UNCHANGED storeVars
  /\ s \notin DOMAIN sockets
  /\ sockets' = Put(sockets, s, username)
  /\ rooms' = Put(rooms, s, {})
  /\ activeUsers' = Put(activeUsers, username, [socketId |-> s, status |-> "online"])
  /\ emitted' = Broadcast(s, DOMAIN sockets', "user:status",
                          [username |-> username, status |-> "online", lastSeen |-> now])
  /\ lastOp' = [op |-> "connection", socket |-> s]
  /\ UNCHANGED <<now, messages, lastSeen, chats, userSockets, nextId, sentLog>>

\* socket.on('disconnect')
Disconnect(s) ==
  /\ UNCHANGED storeVars
  /\ s \in DOMAIN sockets
  /\ LET username == sockets[s]
     IN  /\ lastSeen' = Put(lastSeen, username, now)
         /\ activeUsers' = Del(activeUsers, username)
         /\ sockets' = Del(sockets, s)
         /\ rooms' = Del(rooms, s)
         /\ emitted' = Broadcast(s, DOMAIN sockets', "user:status",
                                 [username |-> username, status |-> "offline", lastSeen |-> now])
                /\ lastOp' = [op |-> "disconnect", socket |-> s, username |-> username,
                       at |-> now]
  /\ UNCHANGED <<now, messages, chats, userSockets, nextId, sentLog>>

(* ------------------------------ messages ------------------------------ *)
MsgIds == {<<t, r>> : t \in 0..MaxClock, r \in Rand}

RECURSIVE TotalLen(_)
TotalLen(m) ==
  IF DOMAIN m = {} THEN 0
  ELSE LET k == CHOOSE x \in DOMAIN m : TRUE
       IN  Len(m[k]) + TotalLen(Del(m, k))

\* Array.prototype.splice(index, 1), 1-based
Splice(arr, k) == SubSeq(arr, 1, k - 1) \o SubSeq(arr, k + 1, Len(arr))

\* dm:join: roomMessages.filter(msg => !msg.deletedFor.includes(username))
RECURSIVE VisibleTo(_, _)
VisibleTo(roomMessages, username) ==
  IF roomMessages = <<>> THEN <<>>
  ELSE IF ~Includes(Head(roomMessages).deletedFor, username)
  THEN <<Head(roomMessages)>> \o VisibleTo(Tail(roomMessages), username)
  ELSE VisibleTo(Tail(roomMessages), username)

\* socket.on('dm:join')
DmJoin(s, otherUser) ==
  /\ UNCHANGED storeVars
  /\ s \in DOMAIN sockets
  /\ LET username == sockets[s]
         roomId == getRoomId(username, otherUser)
         roomMessages == GetOr(messages, roomId, <<>>)
     IN  /\ rooms' = [rooms EXCEPT ![s] = @ \cup {roomId}]
         /\ lastOp' = [op |-> "dm:join", socket |-> s, success |-> TRUE,
                       roomId |-> roomId,
                       messages |-> VisibleTo(roomMessages, username)]
         /\ emitted' = {}
  /\ UNCHANGED <<now, messages, lastSeen, chats, activeUsers, userSockets, sockets,
                 nextId, sentLog>>

\* the recipient recorded is the sender
NewMessageToSender(username, to, text, media, r) ==
  [id |-> <<now, r>>, from |-> username, to |-> username, text |-> text,
   media |-> IF Truthy(media) THEN media ELSE Null,
   timestamp |-> now, readBy |-> <<username>>, deletedFor |-> <<>>]

\* the message object built by dm:message; the id is Date.now().toString()
\* followed by Math.random().toString(36).substr(2, 9)
NewMessage(username, to, text, media, r) ==
  [id |-> <<now, r>>, from |-> username, to |-> to, text |-> text,
   media |-> IF Truthy(media) THEN media ELSE Null,
   timestamp |-> now, readBy |-> <<username>>, deletedFor |-> <<>>]

\* a stale or failed read: the room's array is rebuilt from nothing
PushMessageLost(store, roomId, message) == Put(store, roomId, <<message>>)

\* unshift in place of push
PushMessageFront(store, roomId, message) ==
  Put(store, roomId, <<message>> \o GetOr(store, roomId, <<>>))

\* messages[roomId].push(message) on the object read from messages.json
PushMessage(store, roomId, message) ==
  Put(store, roomId, Append(GetOr(store, roomId, <<>>), message))

\* socket.on('dm:message')
DmMessage(s, to, text, media, r) ==
  /\ UNCHANGED storeVars
  /\ s \in DOMAIN sockets
  /\ LET username == sockets[s]
         roomId == getRoomId(username, to)
         message == NewMessage(username, to, text, media, r)
         recipientUser == GetOr(activeUsers, to, [socketId |-> 0])
     IN  IF ~TruthyName(to) \/ (~Truthy(text) /\ ~Truthy(media))
         THEN /\ lastOp' = [op |-> "dm:message", socket |-> s, success |-> FALSE,
                            error |-> "Invalid message data"]
              /\ emitted' = {}
              /\ UNCHANGED <<messages, sentLog>>
         ELSE /\ TotalLen(sentLog) < MaxSends
              /\ messages' = PushMessage(messages, roomId, message)
              /\ emitted' = ToRoom(roomId, "dm:message", message)
                   \cup (IF Has(activeUsers, to)
                         THEN ToSocket(recipientUser.socketId, "notification:message",
                                       [from |-> username,
                                        message |-> IF Truthy(text) THEN text ELSE "Media",
                                        timestamp |-> message.timestamp])
                         ELSE {})
              /\ lastOp' = [op |-> "dm:message", socket |-> s, success |-> TRUE,
                            message |-> message]
              /\ sentLog' = Put(sentLog, roomId,
                                Append(GetOr(sentLog, roomId, <<>>), message))
  /\ UNCHANGED <<now, lastSeen, chats, activeUsers, userSockets, sockets, rooms, nextId>>

\* the forEach of dm:delete: indexes 1..len0 of the array as it is when each
\* index is reached; an index past the end of the spliced array is skipped
RECURSIVE DeleteLoop(_, _, _, _, _, _, _)
DeleteLoop(arr, k, len0, messageId, username, forEveryone, found) ==
  IF k > len0 \/ k > Len(arr) THEN [arr |-> arr, messageFound |-> found]
  ELSE IF arr[k].id = messageId
  THEN IF forEveryone /\ arr[k].from = username
       THEN DeleteLoop(Splice(arr, k), k + 1, len0, messageId, username, forEveryone, TRUE)
       ELSE DeleteLoop(
              [arr EXCEPT ![k].deletedFor =
                 IF Includes(@, username) THEN @ ELSE Append(@, username)],
              k + 1, len0, messageId, username, forEveryone, TRUE)
  ELSE DeleteLoop(arr, k + 1, len0, messageId, username, forEveryone, found)

\* messageFound starts out true
DeleteMessagesFound(arr, messageId, username, forEveryone) ==
  DeleteLoop(arr, 1, Len(arr), messageId, username, forEveryone, TRUE)

DeleteMessages(arr, messageId, username, forEveryone) ==
  DeleteLoop(arr, 1, Len(arr), messageId, username, forEveryone, FALSE)

\* socket.on('dm:delete')
DmDelete(s, roomId, messageId, forEveryone) ==
  /\ UNCHANGED storeVars
  /\ s \in DOMAIN sockets
  /\ LET username == sockets[s]
     IN  IF ~Has(messages, roomId)
         THEN /\ lastOp' = [op |-> "dm:delete", socket |-> s, success |-> FALSE,
                            error |-> "Room not found"]
              /\ emitted' = {}
              /\ UNCHANGED messages
         ELSE LET res == DeleteMessages(messages[roomId], messageId, username, forEveryone)
              IN  IF res.messageFound
                  THEN /\ messages' = [messages EXCEPT ![roomId] = res.arr]
                       /\ emitted' = ToRoom(roomId, "dm:delete",
                                            [messageId |-> messageId, by |-> username,
                                             forEveryone |-> forEveryone])
                       /\ lastOp' = [op |-> "dm:delete", socket |-> s, success |-> TRUE,
                                     roomId |-> roomId, messageId |-> messageId,
                                     forEveryone |-> forEveryone]
                  ELSE /\ lastOp' = [op |-> "dm:delete", socket |-> s, success |-> FALSE,
                                     error |-> "Message not found"]
                       /\ emitted' = {}
                       /\ UNCHANGED messages
  /\ UNCHANGED <<now, lastSeen, chats, activeUsers, userSockets, sockets, rooms,
                 nextId, sentLog>>

\* socket.on('dm:message') when fs.readFileSync or JSON.parse throws inside
\* readJSON(MESSAGES_FILE): readJSON catches the error and returns {}, the
\* handler pushes the message onto that object and writes it back
DmMessageReadFault(s, to, text, media, r) ==
  /\ UNCHANGED storeVars
  /\ s \in DOMAIN sockets
  /\ TruthyName(to) /\ (Truthy(text) \/ Truthy(media))
  /\ TotalLen(sentLog) < MaxSends
  /\ LET username == sockets[s]
         roomId == getRoomId(username, to)
         message == NewMessage(username, to, text, media, r)
         recipientUser == GetOr(activeUsers, to, [socketId |-> 0])
     IN  /\ messages' = PushMessage(EmptyMap, roomId, message)
         /\ emitted' = ToRoom(roomId, "dm:message", message)
              \cup (IF Has(activeUsers, to)
                    THEN ToSocket(recipientUser.socketId, "notification:message",
                                  [from |-> username,
                                   message |-> IF Truthy(text) THEN text ELSE "Media",
                                   timestamp |-> message.timestamp])
                    ELSE {})
         /\ lastOp' = [op |-> "dm:message", socket |-> s, success |-> TRUE,
                       message |-> message]
         /\ sentLog' = Put(sentLog, roomId,
                           Append(GetOr(sentLog, roomId, <<>>), message))
  /\ UNCHANGED <<now, lastSeen, chats, activeUsers, userSockets, sockets, rooms, nextId>>

(* ------------------------------ signaling ----------------------------- *)
\* socket.on('call:offer'): relayed to the socket recorded in activeUsers
CallOffer(s, to, offer) ==
  /\ UNCHANGED storeVars
  /\ s \in DOMAIN sockets
  /\ LET username == sockets[s]
         recipientUser == GetOr(activeUsers, to, [socketId |-> 0])
     IN  /\ emitted' = IF Has(activeUsers, to)
                       THEN ToSocket(recipientUser.socketId, "call:offer",
                                     [from |-> username, offer |-> offer])
                       ELSE {}
         /\ lastOp' = [op |-> "call:offer", socket |-> s, to |-> to]
  /\ UNCHANGED <<now, messages, lastSeen, chats, activeUsers, userSockets, sockets,
                 rooms, nextId, sentLog>>

(* ------------------- the server with chats.json ----------------------- *)
\* getMessages(roomId, limit = 50)
MessageLimit == 50

\* generateId('msg'): the n-th id handed out; unique and increasing
generateId(n) == <<n, 0>>

\* Array.prototype.slice(-limit)
SliceLast(arr, limit) ==
  IF Len(arr) <= limit THEN arr ELSE SubSeq(arr, Len(arr) - limit + 1, Len(arr))

getMessages(roomId) == SliceLast(GetOr(messages, roomId, <<>>), MessageLimit)

getUserStatus(username) == IF Has(activeUsers, username) THEN "online" ELSE "offline"

getLastSeen(username) == GetOr(lastSeen, username, Null)

\* getUserChatList(username) over a given chats.json content and presence map
ChatListOf(store, active, username) ==
  LET userChats == GetOr(store, username, <<>>)
  IN  [i \in 1..Len(userChats) |->
         [username |-> userChats[i].username,
          lastMessage |-> userChats[i].lastMessage,
          unreadCount |-> userChats[i].unreadCount,
          status |-> IF Has(active, userChats[i].username) THEN "online" ELSE "offline",
          lastSeen |-> getLastSeen(userChats[i].username)]]

\* index of the first element of arr with the given username, 0 if none
FindChat(arr, otherUser) ==
  IF \E i \in 1..Len(arr) : arr[i].username = otherUser
  THEN CHOOSE i \in 1..Len(arr) :
         /\ arr[i].username = otherUser
         /\ \A j \in 1..(i - 1) : arr[j].username # otherUser
  ELSE 0

\* chats[username].sort((a, b) => timeB - timeA): stable, newest first
RECURSIVE InsertChat(_, _)
InsertChat(sorted, c) ==
  IF sorted = <<>> THEN <<c>>
  ELSE IF Head(sorted).lastMessage.timestamp >= c.lastMessage.timestamp
  THEN <<Head(sorted)>> \o InsertChat(Tail(sorted), c)
  ELSE <<c>> \o sorted

RECURSIVE SortChats(_)
SortChats(arr) ==
  IF arr = <<>> THEN <<>>
  ELSE InsertChat(SortChats(SubSeq(arr, 1, Len(arr) - 1)), arr[Len(arr)])

\* the counter goes up for the sender's own summary too
updateUserChatListCountsOwn(store, username, otherUser, message) ==
  LET userChats == GetOr(store, username, <<>>)
      k == FindChat(userChats, otherUser)
      snapshot == [text |-> message.text, from |-> message.from,
                   timestamp |-> message.timestamp]
      updated ==
        IF k # 0
        THEN [userChats EXCEPT ![k].lastMessage = snapshot, ![k].unreadCount = @ + 1]
        ELSE Append(userChats,
                    [username |-> otherUser, lastMessage |-> snapshot,
                     unreadCount |-> 1, status |-> getUserStatus(otherUser)])
  IN  Put(store, username, SortChats(updated))

\* updateUserChatList(username, otherUser, message) on a chats.json content
updateUserChatList(store, username, otherUser, message) ==
  LET userChats == GetOr(store, username, <<>>)
      k == FindChat(userChats, otherUser)
      snapshot == [text |-> message.text, from |-> message.from,
                   timestamp |-> message.timestamp]
      updated ==
        IF k # 0
        THEN [userChats EXCEPT
                ![k].lastMessage = snapshot,
                ![k].unreadCount = IF message.from # username THEN @ + 1 ELSE @]
        ELSE Append(userChats,
                    [username |-> otherUser, lastMessage |-> snapshot,
                     unreadCount |-> IF message.from # username THEN 1 ELSE 0,
                     status |-> getUserStatus(otherUser)])
  IN  Put(store, username, SortChats(updated))

\* clearUnreadCount(username, otherUser) on a chats.json content
clearUnreadCount(store, username, otherUser) ==
  IF Has(store, username) /\ FindChat(store[username], otherUser) # 0
  THEN [store EXCEPT ![username][FindChat(store[username], otherUser)].unreadCount = 0]
  ELSE store

\* broadcastChatList(username) after chats.json and the maps became store/active/socks
broadcastChatList(store, active, socks, username) ==
  IF Has(socks, username)
  THEN ToSocket(socks[username], "chat:list", ChatListOf(store, active, username))
  ELSE {}

\* io.on('connection') of the server with chats.json
Connection008(s, username) ==
  /\ UNCHANGED storeVars
  /\ s \notin DOMAIN sockets
  /\ sockets' = Put(sockets, s, username)
  /\ rooms' = Put(rooms, s, {})
  /\ userSockets' = Put(userSockets, username, s)
  /\ activeUsers' = Put(activeUsers, username, [socketId |-> s, status |-> "online"])
  /\ emitted' = {[to |-> s, ev |-> "chat:list",
                  data |-> ChatListOf(chats, activeUsers', username)]}
        \cup Broadcast(s, DOMAIN sockets', "user:status",
                       [username |-> username, status |-> "online", lastSeen |-> now])
  /\ lastOp' = [op |-> "connection", socket |-> s]
  /\ UNCHANGED <<now, messages, lastSeen, chats, nextId, sentLog>>

\* socket.on('dm:join') of the server with chats.json
DmJoin008(s, otherUser) ==
  /\ UNCHANGED storeVars
  /\ s \in DOMAIN sockets
  /\ LET username == sockets[s]
         roomId == getRoomId(username, otherUser)
     IN  /\ rooms' = [rooms EXCEPT ![s] = @ \cup {roomId}]
         /\ chats' = clearUnreadCount(chats, username, otherUser)
         /\ emitted' = broadcastChatList(chats', activeUsers, userSockets, username)
         /\ lastOp' = [op |-> "dm:join", socket |-> s, success |-> TRUE,
                       roomId |-> roomId, messages |-> getMessages(roomId)]
  /\ UNCHANGED <<now, messages, lastSeen, activeUsers, userSockets, sockets,
                 nextId, sentLog>>

\* socket.on('dm:message') of the server with chats.json
DmMessage008(s, to, text, media) ==
  /\ UNCHANGED storeVars
  /\ s \in DOMAIN sockets
  /\ LET username == sockets[s]
         roomId == getRoomId(username, to)
         message == [id |-> generateId(nextId), from |-> username, to |-> to,
                     text |-> text, media |-> IF Truthy(media) THEN media ELSE Null,
                     timestamp |-> now, readBy |-> <<username>>, deletedFor |-> <<>>]
         chats1 == updateUserChatList(chats, username, to, message)
         chats2 == updateUserChatList(chats1, to, username, message)
     IN  IF ~TruthyName(to) \/ (~Truthy(text) /\ ~Truthy(media))
         THEN /\ lastOp' = [op |-> "dm:message", socket |-> s, success |-> FALSE,
                            error |-> "Invalid message data"]
              /\ emitted' = {}
              /\ UNCHANGED <<messages, chats, nextId, sentLog>>
         ELSE /\ TotalLen(sentLog) < MaxSends
              /\ nextId' = nextId + 1
              /\ messages' = PushMessage(messages, roomId, message)
              /\ chats' = chats2
              /\ emitted' = ToRoom(roomId, "dm:message", message)
                   \cup broadcastChatList(chats2, activeUsers, userSockets, username)
                   \cup broadcastChatList(chats2, activeUsers, userSockets, to)
                   \cup (IF Has(userSockets, to)
                         THEN ToSocket(userSockets[to], "chat:new_message",
                                       [from |-> username, to |-> to, text |-> message.text,
                                        media |-> message.media,
                                        timestamp |-> message.timestamp])
                         ELSE {})
              /\ lastOp' = [op |-> "dm:message", socket |-> s, success |-> TRUE,
                            messageId |-> message.id]
              /\ sentLog' = Put(sentLog, roomId,
                                Append(GetOr(sentLog, roomId, <<>>), message))
  /\ UNCHANGED <<now, lastSeen, activeUsers, userSockets, sockets, rooms>>

\* the writeJSON call of dm:message that throws: saveMessage, the sender's
\* updateUserChatList or the recipient's updateUserChatList
WriteFaults == {"messages", "chats:sender", "chats:recipient"}

\* socket.on('dm:message') of the server with chats.json when a writeJSON
\* throws: the statements before the failing call have taken effect, the
\* catch block answers with a failure
DmMessageFault008(s, to, text, media, failAt) ==
  /\ UNCHANGED storeVars
  /\ s \in DOMAIN sockets
  /\ TruthyName(to) /\ (Truthy(text) \/ Truthy(media))
  /\ nextId < MaxSends
  /\ LET username == sockets[s]
         roomId == getRoomId(username, to)
         message == [id |-> generateId(nextId), from |-> username, to |-> to,
                     text |-> text, media |-> IF Truthy(media) THEN media ELSE Null,
                     timestamp |-> now, readBy |-> <<username>>, deletedFor |-> <<>>]
         chats1 == updateUserChatList(chats, username, to, message)
     IN  /\ nextId' = nextId + 1
         /\ messages' = IF failAt = "messages" THEN messages
                        ELSE PushMessage(messages, roomId, message)
         /\ emitted' = IF failAt = "messages" THEN {}
                       ELSE ToRoom(roomId, "dm:message", message)
         /\ chats' = IF failAt = "chats:recipient" THEN chats1 ELSE chats
         /\ lastOp' = [op |-> "dm:message", socket |-> s, success |-> FALSE,
                       error |-> "Failed to send message"]
  /\ UNCHANGED <<now, lastSeen, activeUsers, userSockets, sockets, rooms, sentLog>>

\* String.prototype.replace(pat, ''): the first occurrence of pat removed
RECURSIVE RemoveFirst(_, _)
RemoveFirst(str, pat) ==
  IF Len(str) < Len(pat) THEN str
  ELSE IF SubSeq(str, 1, Len(pat)) = pat THEN SubSeq(str, Len(pat) + 1, Len(str))
  ELSE <<Head(str)>> \o RemoveFirst(Tail(str), pat)

\* String.prototype.split('::'), cur being the piece read so far
RECURSIVE SplitColons(_, _)
SplitColons(str, cur) ==
  IF str = <<>> THEN <<cur>>
  ELSE IF Len(str) >= 2 /\ str[1] = 58 /\ str[2] = 58
  THEN <<cur>> \o SplitColons(SubSeq(str, 3, Len(str)), <<>>)
  ELSE SplitColons(Tail(str), Append(cur, Head(str)))

\* roomId.replace('dm:', '').split('::')
RoomUsers(roomId) == SplitColons(RemoveFirst(roomId, <<100, 109, 58>>), <<>>)

\* socket.on('dm:delete') of the server with chats.json
DmDelete008(s, roomId, messageId, forEveryone) ==
  /\ UNCHANGED storeVars
  /\ s \in DOMAIN sockets
  /\ LET username == sockets[s]
     IN  IF ~Has(messages, roomId)
         THEN /\ lastOp' = [op |-> "dm:delete", socket |-> s, success |-> FALSE,
                            error |-> "Room not found"]
              /\ emitted' = {}
              /\ UNCHANGED messages
         ELSE LET res == DeleteMessages(messages[roomId], messageId, username, forEveryone)
                  roomUsers == RoomUsers(roomId)
              IN  IF res.messageFound
                  THEN /\ messages' = [messages EXCEPT ![roomId] = res.arr]
                       /\ emitted' = ToRoom(roomId, "dm:delete",
                                            [messageId |-> messageId, by |-> username,
                                             forEveryone |-> forEveryone])
                            \cup UNION {broadcastChatList(chats, activeUsers, userSockets,
                                                          roomUsers[i]) :
                                          i \in 1..Len(roomUsers)}
                       /\ lastOp' = [op |-> "dm:delete", socket |-> s, success |-> TRUE,
                                     roomId |-> roomId, messageId |-> messageId,
                                     forEveryone |-> forEveryone]
                  ELSE /\ lastOp' = [op |-> "dm:delete", socket |-> s, success |-> FALSE,
                                     error |-> "Message not found"]
                       /\ emitted' = {}
                       /\ UNCHANGED messages
  /\ UNCHANGED <<now, lastSeen, chats, activeUsers, userSockets, sockets, rooms,
                 nextId, sentLog>>

\* socket.on('disconnect') of the server with chats.json
Disconnect008(s) ==
  /\ UNCHANGED storeVars
  /\ s \in DOMAIN sockets
  /\ LET username == sockets[s]
     IN  /\ lastSeen' = Put(lastSeen, username, now)
         /\ activeUsers' = Del(activeUsers, username)
         /\ userSockets' = Del(userSockets, username)
         /\ sockets' = Del(sockets, s)
         /\ rooms' = Del(rooms, s)
         /\ emitted' = Broadcast(s, DOMAIN sockets', "user:status",
                                 [username |-> username, status |-> "offline",
                                  lastSeen |-> now])
         /\ lastOp' = [op |-> "disconnect", socket |-> s, username |-> username,
                       at |-> now]
  /\ UNCHANGED <<now, messages, chats, nextId, sentLog>>

\* the events of the WebRTC relay
CallEvents == {"call:offer", "call:answer", "call:candidate", "call:end",
               "video:offer", "video:answer", "video:candidate", "video:end"}

\* every event answers an absent peer with an error
IsOfferAlways(event) == TRUE

\* event.includes('offer')
IsOffer(event) == event \in {"call:offer", "video:offer"}

\* event.replace(':', ':error'): the text ':error' is put in place of the colon
ErrorEvent(event) ==
  CASE event = "call:offer" -> "call:erroroffer"
    [] event = "call:answer" -> "call:erroranswer"
    [] event = "call:candidate" -> "call:errorcandidate"
    [] event = "call:end" -> "call:errorend"
    [] event = "video:offer" -> "video:erroroffer"
    [] event = "video:answer" -> "video:erroranswer"
    [] event = "video:candidate" -> "video:errorcandidate"
    [] event = "video:end" -> "video:errorend"

\* socket.on(event) of the WebRTC relay: {from: username, ...data} goes to
\* the socket recorded in userSockets
CallSignal008(s, event, to, payload) ==
  /\ UNCHANGED storeVars
  /\ s \in DOMAIN sockets
  /\ LET username == sockets[s]
     IN  /\ emitted' =
               IF Has(userSockets, to)
               THEN ToSocket(userSockets[to], event,
                             [from |-> username, to |-> to, payload |-> payload])
               ELSE IF IsOffer(event)
               THEN {[to |-> s, ev |-> ErrorEvent(event),
                      data |-> [error |-> "User not online"]]}
               ELSE {}
         /\ lastOp' = [op |-> event, socket |-> s, to |-> to]
  /\ UNCHANGED <<now, messages, lastSeen, chats, activeUsers, userSockets, sockets,
                 rooms, nextId, sentLog>>

\* socket.on('chat:clear') of the server with chats.json
ChatClear008(s, otherUser) ==
  /\ UNCHANGED storeVars
  /\ s \in DOMAIN sockets
  /\ LET username == sockets[s]
         roomId == getRoomId(username, otherUser)
     IN  /\ messages' = IF Has(messages, roomId) THEN Del(messages, roomId) ELSE messages
         /\ chats' = IF Has(chats, username)
                     THEN [chats EXCEPT ![username] =
                             SelectSeq(@, LAMBDA chat : chat.username # otherUser)]
                     ELSE chats
         /\ emitted' = broadcastChatList(chats', activeUsers, userSockets, username)
              \cup (IF Has(userSockets, otherUser)
                    THEN ToSocket(userSockets[otherUser], "chat:cleared",
                                  [by |-> username, roomId |-> roomId])
                    ELSE {})
         /\ lastOp' = [op |-> "chat:clear", socket |-> s, success |-> TRUE,
                       otherUser |-> otherUser]
  /\ UNCHANGED <<now, lastSeen, activeUsers, userSockets, sockets, rooms, nextId,
                 sentLog>>

\* index of the first message of arr with the given id, 0 if none
FindMessage(arr, messageId) ==
  IF \E i \in 1..Len(arr) : arr[i].id = messageId
  THEN CHOOSE i \in 1..Len(arr) :
         /\ arr[i].id = messageId
         /\ \A j \in 1..(i - 1) : arr[j].id # messageId
  ELSE 0

\* the reader is pushed on a copy read before a concurrent delete was written
MarkReadStale(arr, messageId, username) ==
  LET k == FindMessage(arr, messageId)
  IN  IF k = 0 \/ Includes(arr[k].readBy, username)
      THEN [arr |-> arr, wrote |-> FALSE]
      ELSE [arr |-> [arr EXCEPT ![k].readBy = Append(@, username),
                                ![k].deletedFor = <<>>],
            wrote |-> TRUE]

\* push without the includes test
MarkReadAlways(arr, messageId, username) ==
  LET k == FindMessage(arr, messageId)
  IN  IF k = 0 THEN [arr |-> arr, wrote |-> FALSE]
      ELSE [arr |-> [arr EXCEPT ![k].readBy = Append(@, username)], wrote |-> TRUE]

\* message:read on the array of a room: find, then push the reader unless included
MarkRead(arr, messageId, username) ==
  LET k == FindMessage(arr, messageId)
  IN  IF k = 0 \/ Includes(arr[k].readBy, username)
      THEN [arr |-> arr, wrote |-> FALSE]
      ELSE [arr |-> [arr EXCEPT ![k].readBy = Append(@, username)], wrote |-> TRUE]

\* socket.on('message:read')
MessageRead(s, roomId, messageId) ==
  /\ UNCHANGED storeVars
  /\ s \in DOMAIN sockets
  /\ LET username == sockets[s]
         res == MarkRead(GetOr(messages, roomId, <<>>), messageId, username)
     IN  IF Has(messages, roomId) /\ res.wrote
         THEN /\ messages' = [messages EXCEPT ![roomId] = res.arr]
              /\ emitted' = ToRoom(roomId, "message:read",
                                   [messageId |-> messageId, readBy |-> username])
              /\ lastOp' = [op |-> "message:read", socket |-> s, roomId |-> roomId,
                            messageId |-> messageId, wrote |-> TRUE]
         ELSE /\ emitted' = {}
              /\ lastOp' = [op |-> "message:read", socket |-> s, roomId |-> roomId,
                            messageId |-> messageId, wrote |-> FALSE]
              /\ UNCHANGED messages
  /\ UNCHANGED <<now, lastSeen, chats, activeUsers, userSockets, sockets, rooms,
                 nextId, sentLog>>

(* --------------------- the server of the first draft ------------------- *)
\* io.on('connection'): only registers the handlers
Connection000(s, username) ==
  /\ UNCHANGED storeVars
  /\ s \notin DOMAIN sockets
  /\ sockets' = Put(sockets, s, username)
  /\ rooms' = Put(rooms, s, {})
  /\ emitted' = {}
  /\ lastOp' = [op |-> "connection", socket |-> s]
  /\ UNCHANGED <<now, messages, lastSeen, chats, activeUsers, userSockets, nextId,
                 sentLog>>

\* socket.on('dm:join'): every stored message of the room is returned
DmJoin000(s, otherUser) ==
  /\ UNCHANGED storeVars
  /\ s \in DOMAIN sockets
  /\ LET username == sockets[s]
         roomId == getRoomId(username, otherUser)
     IN  /\ rooms' = [rooms EXCEPT ![s] = @ \cup {roomId}]
         /\ lastOp' = [op |-> "dm:join", socket |-> s, roomId |-> roomId,
                       messages |-> GetOr(messages, roomId, <<>>)]
         /\ emitted' = {}
  /\ UNCHANGED <<now, messages, lastSeen, chats, activeUsers, userSockets, sockets,
                 nextId, sentLog>>

\* socket.on('dm:message'): the id is Date.now().toString(); text and media
\* are stored as received.  subscribers.json has no entry (no client posted
\* /subscribe), so subs[to] is undefined and no push is sent.
DmMessage000(s, to, text, media) ==
  /\ UNCHANGED storeVars
  /\ s \in DOMAIN sockets
  /\ TotalLen(sentLog) < MaxSends
  /\ LET username == sockets[s]
         roomId == getRoomId(username, to)
         message == [id |-> <<now>>, from |-> username, to |-> to, text |-> text,
                     media |-> media, timestamp |-> now, readBy |-> <<username>>,
                     deletedFor |-> <<>>]
     IN  /\ messages' = PushMessage(messages, roomId, message)
         /\ emitted' = ToRoom(roomId, "dm:message", message)
         /\ lastOp' = [op |-> "dm:message", socket |-> s, success |-> TRUE,
                       message |-> message]
         /\ sentLog' = Put(sentLog, roomId,
                           Append(GetOr(sentLog, roomId, <<>>), message))
  /\ UNCHANGED <<now, lastSeen, chats, activeUsers, userSockets, sockets, rooms, nextId>>

(* --------------------------- specifications -------------------------- *)
\* the peers a client opens a conversation with: any user but itself
Peers(s) == IF s \in DOMAIN sockets THEN Users \ {sockets[s]} ELSE {}

\* ids of the messages stored in a room
IdsIn(roomId) ==
  LET arr == GetOr(messages, roomId, <<>>) IN {arr[i].id : i \in 1..Len(arr)}

AbsentId == <<0, 0>>

Send ==
  \E s \in SocketIds, to \in Users \cup {Empty}, c \in Contents, r \in Rand :
     /\ to \in Peers(s) \cup {Empty}
     /\ DmMessage(s, to, c[1], c[2], r)

SendText ==
  \E s \in SocketIds, to \in Users, r \in Rand :
     /\ to \in Peers(s)
     /\ DmMessage(s, to, "hi", Null, r)

Join == \E s \in SocketIds, u \in Users : u \in Peers(s) /\ DmJoin(s, u)

Delete ==
  \E s \in SocketIds, roomId \in RoomIds, messageId \in MsgIds, forEveryone \in BOOLEAN :
     /\ messageId \in IdsIn(roomId) \cup {AbsentId}
     /\ DmDelete(s, roomId, messageId, forEveryone)

Connect == \E s \in SocketIds, u \in Users : Connection(s, u)

Close == \E s \in SocketIds : Disconnect(s)

\* the server with every handler enabled
Next == Tick \/ Connect \/ Close \/ Join \/ Send \/ Delete

Spec == Init /\ [][Next]_vars

\* clients that connect, join and send
NextSend == Tick \/ Connect \/ Join \/ Send

SpecSend == Init /\ [][NextSend]_vars

\* clients that only connect and disconnect
NextPresence == Tick \/ Connect \/ Close

SpecPresence == Init /\ [][NextPresence]_vars

\* clients that connect, join, send text and delete
NextDelete == Tick \/ Connect \/ Join \/ SendText \/ Delete

SpecDelete == Init /\ [][NextDelete]_vars

SendOne ==
  \E s \in SocketIds, to \in Users : to \in Peers(s) /\ DmMessage(s, to, "hi", Null, 1)

\* clients that connect, join, send text and delete within one clock value;
\* the ids of the stored messages differ from AbsentId
NextNotFound == Connect \/ Join \/ SendOne \/ Delete

SpecNotFound == Init /\ [][NextNotFound]_vars

\* a client that sends to any name: a peer, a third user, itself, or none
SendAny ==
  \E s \in SocketIds, to \in Users \cup {UserC, Empty}, r \in Rand :
     DmMessage(s, to, "hi", Null, r)

\* clients that connect and send to any name
NextPair == Tick \/ Connect \/ SendAny

SpecPair == Init /\ [][NextPair]_vars

Connect008 == \E s \in SocketIds, u \in Users : Connection008(s, u)

Join008 == \E s \in SocketIds, u \in Users : u \in Peers(s) /\ DmJoin008(s, u)

SendText008 ==
  \E s \in SocketIds, to \in Users \cup {Empty}, c \in {<<"", Null>>, <<"hi", Null>>} :
     /\ to \in Peers(s) \cup {Empty}
     /\ DmMessage008(s, to, c[1], c[2])

Read ==
  \E s \in SocketIds, roomId \in RoomIds, n \in 0..MaxSends :
     /\ generateId(n) \in IdsIn(roomId) \cup {generateId(MaxSends)}
     /\ MessageRead(s, roomId, generateId(n))

\* the server with chats.json: clients that connect, join, send and mark read
Next008 == Tick \/ Connect008 \/ Join008 \/ SendText008 \/ Read

Spec008 == Init /\ [][Next008]_vars

\* the same server and clients within one clock value
NextRead == Connect008 \/ Join008 \/ SendText008 \/ Read

SpecRead == Init /\ [][NextRead]_vars

\* a client that names itself as the other user of a conversation
Delete008 ==
  \E s \in SocketIds, roomId \in RoomIds, n \in 0..MaxSends, forEveryone \in BOOLEAN :
     /\ generateId(n) \in IdsIn(roomId) \cup {generateId(MaxSends)}
     /\ DmDelete008(s, roomId, generateId(n), forEveryone)

\* the server with chats.json: clients that connect, join, send and delete
NextDelete008 == Connect008 \/ Join008 \/ SendText008 \/ Delete008

SpecDelete008 == Init /\ [][NextDelete008]_vars

Connect3 == \E s \in SocketIds, u \in Users \cup {UserC} : Connection008(s, u)

Send3 ==
  \E s \in SocketIds, to \in Users \cup {UserC} :
     /\ s \in DOMAIN sockets
     /\ to # sockets[s]
     /\ DmMessage008(s, to, "hi", Null)

\* the server with chats.json and three users who connect and send
NextChatList == Tick \/ Connect3 \/ Send3

SpecChatList == Init /\ [][NextChatList]_vars

Close008 == \E s \in SocketIds : Disconnect008(s)

Signal008 ==
  \E s \in SocketIds, event \in CallEvents, to \in Users :
     /\ to \in Peers(s)
     /\ CallSignal008(s, event, to, "sdp")

\* the server with chats.json: clients that connect, disconnect and signal
NextSignal == Connect008 \/ Close008 \/ Signal008

SpecSignal == Init /\ [][NextSignal]_vars

Clear008 == \E s \in SocketIds, u \in Users : u \in Peers(s) /\ ChatClear008(s, u)

\* the server with chats.json: clients that connect, send and clear chats
NextClear == Connect008 \/ SendText008 \/ Clear008

SpecClear == Init /\ [][NextClear]_vars

SendPeer008 ==
  \E s \in SocketIds, to \in Users : to \in Peers(s) /\ DmMessage008(s, to, "hi", Null)

ReadStored ==
  \E s \in SocketIds, n \in 0..MaxSends :
     /\ generateId(n) \in IdsIn(getRoomId(UserA, UserB))
     /\ MessageRead(s, getRoomId(UserA, UserB), generateId(n))

SoftDelete008 ==
  \E s \in SocketIds, n \in 0..MaxSends :
     /\ generateId(n) \in IdsIn(getRoomId(UserA, UserB))
     /\ DmDelete008(s, getRoomId(UserA, UserB), generateId(n), FALSE)

\* the server with chats.json: clients that connect and whose sends, reads
\* and deletes are handled in any order
NextMutate == Connect008 \/ SendPeer008 \/ ReadStored \/ SoftDelete008

SpecMutate == Init /\ [][NextMutate]_vars

JoinSelf == \E s \in SocketIds : s \in DOMAIN sockets /\ DmJoin(s, sockets[s])

SendSelf ==
  \E s \in SocketIds, c \in Contents, r \in Rand :
     /\ s \in DOMAIN sockets
     /\ DmMessage(s, sockets[s], c[1], c[2], r)

\* clients that connect, join and send, the peer being themselves
NextSelf == Connect \/ JoinSelf \/ SendSelf

SpecSelf == Init /\ [][NextSelf]_vars

\* clients that connect, disconnect and send
NextNotify == Connect \/ Close \/ Send

SpecNotify == Init /\ [][NextNotify]_vars

SendFault008 ==
  \E s \in SocketIds, to \in Users, failAt \in WriteFaults :
     /\ to \in Peers(s)
     /\ DmMessageFault008(s, to, "hi", Null, failAt)

\* the server with chats.json on a disk whose writes can fail
NextFault == Connect008 \/ Join008 \/ SendText008 \/ SendFault008

SpecFault == Init /\ [][NextFault]_vars

Offer ==
  \E s \in SocketIds, to \in Users : to \in Peers(s) /\ CallOffer(s, to, "sdp")

\* clients that connect, disconnect and place calls
NextCall == Tick \/ Connect \/ Close \/ Offer

SpecCall == Init /\ [][NextCall]_vars

Connect000 == \E s \in SocketIds, u \in Users : Connection000(s, u)

Join000 == \E s \in SocketIds, u \in Users : u \in Peers(s) /\ DmJoin000(s, u)

Send000 ==
  \E s \in SocketIds, to \in Users, c \in Contents :
     /\ to \in Peers(s)
     /\ DmMessage000(s, to, c[1], c[2])

\* the server of the first draft: clients that connect, join and send
Next000 == Tick \/ Connect000 \/ Join000 \/ Send000

Spec000 == Init /\ [][Next000]_vars

\* a pair of registered usernames handed to getRoomId
InitKey ==
  /\ files = EmptyMap
  /\ call = NoOp
  /\ users = <<>>
  /\ requests = EmptyMap
  /\ now = 0
  /\ messages = EmptyMap
  /\ lastSeen = EmptyMap
  /\ chats = EmptyMap
  /\ activeUsers = EmptyMap
  /\ userSockets = EmptyMap
  /\ sockets = EmptyMap
  /\ rooms = EmptyMap
  /\ nextId = 0
  /\ emitted = {}
  /\ sentLog = EmptyMap
  /\ \E user1 \in Names, user2 \in Names :
        lastOp = [op |-> "input", user1 |-> user1, user2 |-> user2]

\* the call getRoomId(user1, user2) and its return value
ResolveKey ==
  /\ UNCHANGED storeVars
  /\ lastOp.op = "input"
  /\ lastOp' = [op |-> "getRoomId", user1 |-> lastOp.user1, user2 |-> lastOp.user2,
                roomId |-> getRoomId(lastOp.user1, lastOp.user2)]
  /\ UNCHANGED <<now, messages, lastSeen, chats, activeUsers, userSockets, sockets,
                 rooms, nextId, emitted, sentLog>>

NextKey == ResolveKey

SpecKey == InitKey /\ [][NextKey]_vars

\* two pairs of signed-up usernames handed to getRoomId
InitPairs ==
  /\ files = EmptyMap
  /\ call = NoOp
  /\ users = <<>>
  /\ requests = EmptyMap
  /\ now = 0
  /\ messages = EmptyMap
  /\ lastSeen = EmptyMap
  /\ chats = EmptyMap
  /\ activeUsers = EmptyMap
  /\ userSockets = EmptyMap
  /\ sockets = EmptyMap
  /\ rooms = EmptyMap
  /\ nextId = 0
  /\ emitted = {}
  /\ sentLog = EmptyMap
  /\ \E u1 \in SignupNames, u2 \in SignupNames, v1 \in SignupNames, v2 \in SignupNames :
        lastOp = [op |-> "input", pair1 |-> <<u1, u2>>, pair2 |-> <<v1, v2>>]

\* the calls getRoomId(u1, u2) and getRoomId(v1, v2) and their return values
ResolvePairs ==
  /\ UNCHANGED storeVars
  /\ lastOp.op = "input"
  /\ lastOp' = [op |-> "getRoomId", pair1 |-> lastOp.pair1, pair2 |-> lastOp.pair2,
                roomId1 |-> getRoomId(lastOp.pair1[1], lastOp.pair1[2]),
                roomId2 |-> getRoomId(lastOp.pair2[1], lastOp.pair2[2])]
  /\ UNCHANGED <<now, messages, lastSeen, chats, activeUsers, userSockets, sockets,
                 rooms, nextId, emitted, sentLog>>

NextPairs == ResolvePairs

SpecPairs == InitPairs /\ [][NextPairs]_vars

\* sockets of the two users of a conversation and of a third user
ConnectAny == \E s \in SocketIds, u \in Users \cup {UserC} : Connection(s, u)

\* a delete that names the conversation of a and b and one of its messages,
\* sent by any connected socket
DeleteAB ==
  \E s \in SocketIds, messageId \in MsgIds, forEveryone \in BOOLEAN :
     /\ messageId \in IdsIn(getRoomId(UserA, UserB))
     /\ DmDelete(s, getRoomId(UserA, UserB), messageId, forEveryone)

\* three users who connect and send; any of them deletes in the
\* conversation of a and b
NextOutsider == ConnectAny \/ SendOne \/ DeleteAB

SpecOutsider == Init /\ [][NextOutsider]_vars

\* a send during which the read of messages.json fails
SendReadFault ==
  \E s \in SocketIds, to \in Users \cup {UserC}, r \in Rand :
     DmMessageReadFault(s, to, "hi", Null, r)

\* clients that connect and send to any name, with reads of the store that
\* may fail
NextReadFault == Tick \/ Connect \/ SendAny \/ SendReadFault

SpecReadFault == Init /\ [][NextReadFault]_vars

(* ------------------------ file helpers (fileDB) ------------------------ *)
\* the values a data file holds: an array of small items, or the object {}
Items == {1, 2}

ArraysUpTo(n) == UNION {[1..k -> Items] : k \in 0..n}

Array(items) == [kind |-> "array", items |-> items]

EmptyObject == [kind |-> "object", items |-> <<>>]

JsonData == {Array(items) : items \in ArraysUpTo(MaxItems)} \cup {EmptyObject}

\* the elements of an array as JSON.stringify(data, null, 2) prints them:
\* a newline, two spaces and the digit, separated by commas
RECURSIVE StringifyItems(_)
StringifyItems(items) ==
  IF Len(items) = 1 THEN <<10, 32, 32, 48 + items[1]>>
  ELSE <<10, 32, 32, 48 + Head(items), 44>> \o StringifyItems(Tail(items))

\* JSON.stringify(data, null, 2), as the sequence of its character codes
Stringify(data) ==
  IF data.kind = "object" THEN <<123, 125>>
  ELSE IF data.items = <<>> THEN <<91, 93>>
  ELSE <<91>> \o StringifyItems(data.items) \o <<10, 93>>

ParseError == [kind |-> "SyntaxError", items |-> <<>>]

\* JSON.parse(text): the value whose text it is, a SyntaxError otherwise
Parse(text) ==
  IF \E d \in JsonData : Stringify(d) = text
  THEN CHOOSE d \in JsonData : Stringify(d) = text
  ELSE ParseError

\* the first k characters of a text
Prefix(text, k) == SubSeq(text, 1, k)

\* file paths are sequences of name parts, joined by concatenation
FilePaths == {<<"messages.json">>, <<"users.json">>}

\* filePath + '.tmp'
TempPath(filePath) == filePath \o <<".tmp">>

\* the longest text of a data file: brackets, a closing newline, and
\* four characters and a comma for each item
MaxTextLen == 3 + 5 * MaxItems

\* the fs call of writeJSON that throws, if any
WriteFaultPoints == {"none", "writeFileSync", "renameSync"}

\* the catch block of writeJSON: the temporary file is unlinked when it
\* exists; a failing unlink is logged and swallowed
CleanupTemp(fs, filePath, unlinkFails) ==
  IF Has(fs, TempPath(filePath)) /\ ~unlinkFails
  THEN Del(fs, TempPath(filePath))
  ELSE fs

\* the data directory after writeJSON(filePath, data) of fileDB.js.
\* writeFileSync(tempPath) throwing leaves the first k characters in the
\* temporary file (k = -1: the file was not opened); renameSync throwing
\* leaves the whole text there.
WriteJSONFiles(fs, filePath, data, fault, k, unlinkFails) ==
  LET text == Stringify(data)
  IN  CASE fault = "none" ->
             Put(Del(fs, TempPath(filePath)), filePath, text)
        [] fault = "writeFileSync" ->
             CleanupTemp(IF k < 0 THEN fs ELSE Put(fs, TempPath(filePath), Prefix(text, k)),
                         filePath, unlinkFails)
        [] fault = "renameSync" ->
             CleanupTemp(Put(fs, TempPath(filePath), text), filePath, unlinkFails)

\* writeJSON(filePath, data) of fileDB.js
WriteJSON(filePath, data, fault, k, unlinkFails) ==
  /\ k \in -1..(Len(Stringify(data)) - 1)
  /\ files' = WriteJSONFiles(files, filePath, data, fault, k, unlinkFails)
  /\ call' = [op |-> "writeJSON", filePath |-> filePath, data |-> data,
              threw |-> fault # "none"]
  /\ UNCHANGED <<now, messages, lastSeen, chats, activeUsers, userSockets, sockets,
                 rooms, nextId, emitted, lastOp, sentLog, users, requests>>

\* the fs call of the first-draft writeJSON that throws, if any
WriteFaultPoints003 == {"none", "writeFileSync"}

\* writeJSON(filePath, data) of the first draft of fileDB: writeFileSync on
\* the data file itself.  When it throws, the file was not opened (k = -1)
\* or was truncated and holds the first k characters of the new text.
WriteJSON003(filePath, data, fault, k) ==
  /\ k \in -1..(Len(Stringify(data)) - 1)
  /\ files' = IF fault = "none" THEN Put(files, filePath, Stringify(data))
              ELSE IF k < 0 THEN files
              ELSE Put(files, filePath, Prefix(Stringify(data), k))
  /\ call' = [op |-> "writeJSON", filePath |-> filePath, data |-> data,
              threw |-> fault # "none"]
  /\ UNCHANGED <<now, messages, lastSeen, chats, activeUsers, userSockets, sockets,
                 rooms, nextId, emitted, lastOp, sentLog, users, requests>>

\* maxRetries = 3
maxRetries == 3

\* what readJSON returns from its catch block
ErrorDefault(filePath) == IF filePath = <<"users.json">> THEN Array(<<>>) ELSE EmptyObject

\* the default readJSON creates a missing file with
MissingDefault(filePath) ==
  IF filePath = <<"users.json">> THEN Array(<<>>)
  ELSE IF filePath \in {<<"messages.json">>, <<"last_seen.json">>, <<"chat_rooms.json">>}
  THEN EmptyObject
  ELSE Array(<<>>)

\* data.trim() is empty: the text holds nothing but white space
IsBlank(text) == \A i \in 1..Len(text) : text[i] \in {10, 32}

\* readJSON(filePath): the value returned and the data directory it leaves.
\* readFails: fs.readFileSync throws.  A missing or blank file is written
\* with its default; a read or parse error is caught and answered with the
\* default of the catch block.
readJSON(fs, filePath, readFails) ==
  IF ~Has(fs, filePath)
  THEN [data |-> MissingDefault(filePath),
        fs |-> WriteJSONFiles(fs, filePath, MissingDefault(filePath), "none", -1, FALSE)]
  ELSE IF readFails
  THEN [data |-> ErrorDefault(filePath), fs |-> fs]
  ELSE IF IsBlank(fs[filePath])
  THEN [data |-> ErrorDefault(filePath),
        fs |-> WriteJSONFiles(fs, filePath, ErrorDefault(filePath), "none", -1, FALSE)]
  ELSE IF Parse(fs[filePath]) = ParseError
  THEN [data |-> ErrorDefault(filePath), fs |-> fs]
  ELSE [data |-> Parse(fs[filePath]), fs |-> fs]

\* the update functions handed to updateJSON: data => [...data, 1],
\* data => [...data, 2], and one that throws
UpdateFns == {"push1", "push2", "throw"}

Thrown == [kind |-> "Error", items |-> <<>>]

\* updateFn(data); spreading a value that is not an array throws
ApplyUpdate(fn, data) ==
  IF fn = "throw" \/ data.kind # "array" THEN Thrown
  ELSE Array(Append(data.items, IF fn = "push1" THEN 1 ELSE 2))

\* updateJSON(filePath, updateFn) is called: attempts = 0
UpdateStart(filePath, fn) ==
  /\ IF call.op = "updateJSON" THEN call.pc # "loop" ELSE TRUE
  /\ call' = [op |-> "updateJSON", pc |-> "loop", filePath |-> filePath, fn |-> fn,
              attempts |-> 0, before |-> files[filePath], readFailed |-> FALSE,
              result |-> Thrown]
  /\ UNCHANGED <<now, messages, lastSeen, chats, activeUsers, userSockets, sockets,
                 rooms, nextId, emitted, lastOp, sentLog, files, users, requests>>

\* one pass of the while loop of updateJSON: readJSON, updateFn, writeJSON;
\* it returns the updated data, or counts the attempt and throws when
\* attempts reached maxRetries, or sleeps and loops
UpdateAttempt(readFails, fault, k, unlinkFails) ==
  /\ call.op = "updateJSON" /\ call.pc = "loop"
  /\ call.attempts < maxRetries
  /\ LET read == readJSON(files, call.filePath, readFails)
         updatedData == ApplyUpdate(call.fn, read.data)
         failed == updatedData = Thrown \/ fault # "none"
         attempts == call.attempts + 1
     IN  /\ updatedData # Thrown => k \in -1..(Len(Stringify(updatedData)) - 1)
         /\ updatedData = Thrown => (fault = "none" /\ k = -1 /\ ~unlinkFails)
         /\ fault = "none" => (k = -1 /\ ~unlinkFails)
         /\ files' = IF updatedData = Thrown THEN read.fs
                     ELSE WriteJSONFiles(read.fs, call.filePath, updatedData,
                                         fault, k, unlinkFails)
         /\ call' = IF ~failed
                    THEN [call EXCEPT !.pc = "returned", !.result = updatedData,
                                      !.readFailed = @ \/ readFails]
                    ELSE [call EXCEPT !.attempts = attempts,
                                      !.pc = IF attempts >= maxRetries THEN "threw"
                                             ELSE "loop",
                                      !.readFailed = @ \/ readFails]
  /\ UNCHANGED <<now, messages, lastSeen, chats, activeUsers, userSockets, sockets,
                 rooms, nextId, emitted, lastOp, sentLog, users, requests>>

\* the data file a behaviour is about, after the server started: it holds
\* the default value readJSON created it with
DefaultData(filePath) == IF filePath = <<"users.json">> THEN Array(<<>>) ELSE EmptyObject

InitFiles ==
  /\ \E p \in FilePaths : files = [q \in {p} |-> Stringify(DefaultData(p))]
  /\ call = NoOp
  /\ users = <<>>
  /\ requests = EmptyMap
  /\ now = 0
  /\ messages = EmptyMap
  /\ lastSeen = EmptyMap
  /\ chats = EmptyMap
  /\ activeUsers = EmptyMap
  /\ userSockets = EmptyMap
  /\ sockets = EmptyMap
  /\ rooms = EmptyMap
  /\ nextId = 0
  /\ emitted = {}
  /\ lastOp = NoOp
  /\ sentLog = EmptyMap

\* a caller of the atomic writeJSON, with any fs call failing
Write ==
  \E filePath \in FilePaths \cap DOMAIN files, data \in JsonData, fault \in WriteFaultPoints,
     k \in -1..MaxTextLen, unlinkFails \in BOOLEAN :
     WriteJSON(filePath, data, fault, k, unlinkFails)

NextWrite == Write

SpecWrite == InitFiles /\ [][NextWrite]_vars

\* a caller of the first-draft writeJSON, with any fs call failing
Write003 ==
  \E filePath \in FilePaths \cap DOMAIN files, data \in JsonData, fault \in WriteFaultPoints003,
     k \in -1..MaxTextLen :
     WriteJSON003(filePath, data, fault, k)

NextWrite003 == Write003

SpecWrite003 == InitFiles /\ [][NextWrite003]_vars

\* a caller of updateJSON on a file whose array has room for one more item
Update ==
  \E filePath \in FilePaths \cap DOMAIN files, fn \in UpdateFns :
     /\ Len(Parse(files[filePath]).items) < MaxItems
     /\ UpdateStart(filePath, fn)

\* a pass of the loop in which the read, the write or the cleanup may fail
Attempt ==
  \E readFails \in BOOLEAN, fault \in WriteFaultPoints, k \in -1..MaxTextLen,
     unlinkFails \in BOOLEAN :
     UpdateAttempt(readFails, fault, k, unlinkFails)

NextUpdate == Update \/ Attempt

SpecUpdate == InitFiles /\ [][NextUpdate]_vars

(* --------------------- computed chat list (part_001) -------------------- *)
\* String.prototype.includes(pat): pat occurs somewhere in str
RECURSIVE StrIncludes(_, _)
StrIncludes(str, pat) ==
  IF Len(str) < Len(pat) THEN FALSE
  ELSE IF SubSeq(str, 1, Len(pat)) = pat THEN TRUE
  ELSE StrIncludes(Tail(str), pat)

\* roomId.includes(username)
IsRoomOf(roomId, username) == StrIncludes(roomId, username)

\* roomUsers.find(u => u !== username); undefined is the empty name
FindOther(roomUsers, username) ==
  IF \E i \in 1..Len(roomUsers) : roomUsers[i] # username
  THEN roomUsers[CHOOSE i \in 1..Len(roomUsers) :
                   /\ roomUsers[i] # username
                   /\ \A j \in 1..(i - 1) : roomUsers[j] = username]
  ELSE Empty

\* visibleMessages.filter(msg => msg.from !== username && !msg.readBy.includes(username)).length
RECURSIVE CountUnread(_, _)
CountUnread(visibleMessages, username) ==
  IF visibleMessages = <<>> THEN 0
  ELSE (IF Head(visibleMessages).from # username
           /\ ~Includes(Head(visibleMessages).readBy, username)
        THEN 1 ELSE 0) + CountUnread(Tail(visibleMessages), username)

\* the entries getUserChatList pushes while it walks Object.keys(messages),
\* keys being the room ids in the order they were added to the store
RECURSIVE ChatEntries001(_, _, _, _, _)
ChatEntries001(store, seen, active, keys, username) ==
  IF keys = <<>> THEN <<>>
  ELSE LET roomId == Head(keys)
           roomMessages == store[roomId]
           visibleMessages == VisibleTo(roomMessages, username)
           lastMessage == visibleMessages[Len(visibleMessages)]
           otherUser == FindOther(RoomUsers(roomId), username)
           rest == ChatEntries001(store, seen, active, Tail(keys), username)
       IN  IF /\ IsRoomOf(roomId, username)
              /\ Len(roomMessages) > 0
              /\ Len(visibleMessages) > 0
              /\ TruthyName(otherUser)
           THEN <<[username |-> otherUser,
                   lastMessage |-> [text |-> IF Truthy(lastMessage.text)
                                             THEN lastMessage.text ELSE "Media",
                                    timestamp |-> lastMessage.timestamp,
                                    from |-> lastMessage.from],
                   unreadCount |-> CountUnread(visibleMessages, username),
                   roomId |-> roomId,
                   lastSeen |-> GetOr(seen, otherUser, Null),
                   status |-> IF Has(active, otherUser) THEN "online" ELSE "offline"]>>
                \o rest
           ELSE rest

\* getUserChatList(username) of the server that computes the list from
\* messages.json
getUserChatList001(store, seen, active, keys, username) ==
  SortChats(ChatEntries001(store, seen, active, keys, username))

\* three signed-up users; the name of the first is the beginning of the
\* name of the second
UserAnn == <<97, 110, 110>>

UserAnna == <<97, 110, 110, 97>>

UserBob == <<98, 111, 98>>

ListUsers == {UserAnn, UserAnna, UserBob}

ListRooms == {getRoomId(u, v) : u \in ListUsers, v \in ListUsers} \ {getRoomId(u, u) : u \in ListUsers}

\* the arrays a conversation of two users holds after at most one send
RoomArrays(roomId) ==
  {<<>>} \cup
  {<<[id |-> <<t, 0>>, from |-> from, to |-> FindOther(RoomUsers(roomId), from),
      text |-> "hi", media |-> Null, timestamp |-> t, readBy |-> <<from>>,
      deletedFor |-> <<>>]>> :
     from \in {RoomUsers(roomId)[1], RoomUsers(roomId)[2]}, t \in 0..MaxClock}

\* the orders in which the keys of a store were added to it
KeyOrders(S) == {f \in [1..Cardinality(S) -> S] : \A i, j \in DOMAIN f : f[i] = f[j] => i = j}

\* a messages.json left by sends among the three users, and a user asking
\* for the chat list
InitList ==
  /\ files = EmptyMap
  /\ call = NoOp
  /\ users = <<>>
  /\ requests = EmptyMap
  /\ now = 0
  /\ lastSeen = EmptyMap
  /\ chats = EmptyMap
  /\ activeUsers = EmptyMap
  /\ userSockets = EmptyMap
  /\ sockets = EmptyMap
  /\ rooms = EmptyMap
  /\ nextId = 0
  /\ emitted = {}
  /\ sentLog = EmptyMap
  /\ \E held \in SUBSET ListRooms :
        /\ messages \in [held -> UNION {RoomArrays(r) \ {<<>>} : r \in held}]
        /\ \A r \in held : messages[r] \in RoomArrays(r)
        /\ \E keys \in KeyOrders(held), username \in ListUsers :
              lastOp = [op |-> "input", keys |-> keys, username |-> username]

ResolveChatList ==
  /\ lastOp.op = "input"
  /\ lastOp' = [op |-> "getUserChatList", username |-> lastOp.username,
                chatList |-> getUserChatList001(messages, lastSeen, activeUsers,
                                                lastOp.keys, lastOp.username)]
  /\ UNCHANGED <<now, messages, lastSeen, chats, activeUsers, userSockets, sockets,
                 rooms, nextId, emitted, sentLog>>
  /\ UNCHANGED storeVars

NextList == ResolveChatList

SpecList == InitList /\ [][NextList]_vars

(* ---------------------- registration (authRoutes) ---------------------- *)
\* String.prototype.toLowerCase() on the characters of a username
ToLowerCase(str) ==
  [i \in 1..Len(str) |-> IF str[i] >= 65 /\ str[i] <= 90 THEN str[i] + 32 ELSE str[i]]

\* users.find(user => user.username.toLowerCase() === username.toLowerCase())
ExistingUser(arr, username) ==
  \E i \in 1..Len(arr) : ToLowerCase(arr[i].username) = ToLowerCase(username)

\* router.post('/register') up to await bcrypt.hash: users.json is read and
\* searched; the request is answered 400 or waits for the hash with the
\* array it read
RegisterStart(req, username) ==
  /\ req \notin DOMAIN requests
  /\ LET read == users
     IN  IF ExistingUser(read, username)
         THEN requests' = Put(requests, req,
                              [pc |-> "done", status |-> 400, username |-> username,
                               users |-> <<>>])
         ELSE requests' = Put(requests, req,
                              [pc |-> "hash", status |-> 0, username |-> username,
                               users |-> read])
  /\ UNCHANGED <<now, messages, lastSeen, chats, activeUsers, userSockets, sockets,
                 rooms, nextId, emitted, lastOp, sentLog, files, call, users>>

\* router.post('/register') after await bcrypt.hash: the new user is pushed
\* onto the array read before the await, the array is written to users.json
\* and the request is answered 201
RegisterFinish(req) ==
  /\ req \in DOMAIN requests
  /\ requests[req].pc = "hash"
  /\ LET newUser == [id |-> <<now, req>>, username |-> requests[req].username,
                     password |-> "hashed", createdAt |-> now, lastLogin |-> Null,
                     isActive |-> TRUE]
     IN  users' = Append(requests[req].users, newUser)
  /\ requests' = [requests EXCEPT ![req] =
                    [pc |-> "done", status |-> 201, username |-> @.username,
                     users |-> <<>>]]
  /\ UNCHANGED <<now, messages, lastSeen, chats, activeUsers, userSockets, sockets,
                 rooms, nextId, emitted, lastOp, sentLog, files, call>>

\* usernames sent to /register: two that differ in case only, and a third
RegisterNames == {<<97, 110, 110>>, <<65, 110, 110>>, <<98, 111, 98>>}

RequestIds == 1..MaxRequests

Register == \E req \in RequestIds, username \in RegisterNames : RegisterStart(req, username)

Hashed == \E req \in RequestIds : RegisterFinish(req)

\* register requests whose hashes complete in any order
NextRegister == Register \/ Hashed

SpecRegister == Init /\ [][NextRegister]_vars

(* ------------------------------- claims ------------------------------- *)
\* ids are strings compared as JavaScript compares them; the timestamp
\* prefixes have the same number of digits
IdLess(a, b) == a[1] < b[1] \/ (a[1] = b[1] /\ a[2] < b[2])

RoomAB == getRoomId(UserA, UserB)

C3_IdsStrictlyIncreasing ==
  \A roomId \in DOMAIN messages :
     \A i, j \in 1..Len(messages[roomId]) :
        i < j => IdLess(messages[roomId][i].id, messages[roomId][j].id)

\* C4: an identity has an entry in activeUsers if and only if at least one of
\* its sockets is connected.
C4_OnlineIffConnected ==
  \A u \in Users : Has(activeUsers, u) <=> (\E s \in DOMAIN sockets : sockets[s] = u)

\* C5: an offline event for an identity is emitted only by the disconnect that
\* leaves it without a connected socket, and the persisted lastSeen is then
\* no earlier than the time of that disconnect.
C5_OfflineOnlyAtLastDisconnect ==
  /\ \A e \in emitted :
        (e.ev = "user:status" /\ e.data.status = "offline")
           => ~(\E s \in DOMAIN sockets : sockets[s] = e.data.username)
  /\ lastOp.op = "disconnect" =>
        /\ Has(lastSeen, lastOp.username)
        /\ lastSeen[lastOp.username] >= lastOp.at

\* C6: after a successful delete with forEveryone=true, no message of that id
\* written by the requester is left in the stored conversation, so no join
\* returns it to any viewer.
C6_AuthorDeleteRemoves ==
  (lastOp.op = "dm:delete" /\ lastOp.success /\ lastOp.forEveryone) =>
     \A v \in Users :
        LET arr == messages[lastOp.roomId]
            view == VisibleTo(arr, v)
        IN  /\ \A i \in 1..Len(arr) :
                 ~(arr[i].id = lastOp.messageId /\ arr[i].from = sockets[lastOp.socket])
            /\ \A i \in 1..Len(view) :
                 ~(view[i].id = lastOp.messageId /\ view[i].from = sockets[lastOp.socket])

\* C7: a delete with forEveryone=true by a user who did not write the message
\* is a delete for that user only: the message stays stored, it is hidden
\* from the requester's joins, and the other users see it as before.
C7_NonAuthorDowngrade ==
  [][\A s \in SocketIds, roomId \in RoomIds, messageId \in MsgIds :
       (Has(messages, roomId) /\ DmDelete(s, roomId, messageId, TRUE)) =>
          \A i \in 1..Len(messages[roomId]) :
             LET m == messages[roomId][i]
             IN  (m.id = messageId /\ m.from # sockets[s]) =>
                   \E j \in 1..Len(messages'[roomId]) :
                      LET n == messages'[roomId][j]
                      IN  /\ n.id = m.id /\ n.from = m.from /\ n.text = m.text
                          /\ Includes(n.deletedFor, sockets[s])
                          /\ \A v \in Users \ {sockets[s]} :
                                Includes(n.deletedFor, v) <=> Includes(m.deletedFor, v)
    ]_vars

\* C8: marking a message read adds the reader to readBy once; a second
\* message:read by the same reader for the same id writes nothing and emits
\* no read-receipt.
C8_MarkReadIdempotent ==
  [][(/\ lastOp'.op = "message:read"
      /\ Has(messages, lastOp'.roomId)
      /\ MessageRead(lastOp'.socket, lastOp'.roomId, lastOp'.messageId)) =>
        LET reader == sockets[lastOp'.socket]
            arr == messages[lastOp'.roomId]
            k == FindMessage(arr, lastOp'.messageId)
        IN  k # 0 =>
              IF Includes(arr[k].readBy, reader)
              THEN /\ messages' = messages
                   /\ emitted' = {}
                   /\ ~lastOp'.wrote
              ELSE /\ messages'[lastOp'.roomId][k].readBy = Append(arr[k].readBy, reader)
                   /\ lastOp'.wrote
    ]_vars

\* a second message:read by a reader who is not the author changed nothing
C8_Witness ==
  /\ lastOp.op = "message:read"
  /\ ~lastOp.wrote
  /\ emitted = {}
  /\ Has(messages, lastOp.roomId)
  /\ LET arr == messages[lastOp.roomId]
         k == FindMessage(arr, lastOp.messageId)
     IN  /\ k # 0
         /\ arr[k].from # sockets[lastOp.socket]
         /\ arr[k].readBy = <<arr[k].from, sockets[lastOp.socket]>>

\* the unreadCount stored in owner's chat summary for peer, 0 without a summary
UnreadCount(owner, peer) ==
  LET userChats == GetOr(chats, owner, <<>>)
      k == FindChat(userChats, peer)
  IN  IF k = 0 THEN 0 ELSE userChats[k].unreadCount

\* indexes of the stored messages that peer sent to owner
SentBy(peer, owner) ==
  LET arr == GetOr(messages, getRoomId(owner, peer), <<>>)
  IN  {i \in 1..Len(arr) : arr[i].from = peer}

\* those of them that owner has not read and not deleted for itself
Unread(owner, peer) ==
  LET arr == GetOr(messages, getRoomId(owner, peer), <<>>)
  IN  {i \in SentBy(peer, owner) :
         ~Includes(arr[i].readBy, owner) /\ ~Includes(arr[i].deletedFor, owner)}

\* C9: unreadCount is N after N unread sends from the peer, 0 once the owner
\* has marked all of them read, and never negative.
C9_UnreadAccounting ==
  \A owner \in Users : \A peer \in Users \ {owner} :
     /\ UnreadCount(owner, peer) >= 0
     /\ Unread(owner, peer) = SentBy(peer, owner)
          => UnreadCount(owner, peer) = Cardinality(SentBy(peer, owner))
     /\ Unread(owner, peer) = {} => UnreadCount(owner, peer) = 0

\* C10: in every state, unreadCount equals the number of stored messages from
\* the peer that the owner has neither read nor deleted for itself.
C10_UnreadCountMatchesStore ==
  \A owner \in Users : \A peer \in Users \ {owner} :
     UnreadCount(owner, peer) = Cardinality(Unread(owner, peer))

\* C11: a dm:join marks nothing read: the join step leaves every stored
\* message's readBy as it was and leaves every user's unreadCount for every
\* peer as it was.
C11_JoinMarksNothingRead ==
  [][lastOp'.op = "dm:join" =>
       /\ \A roomId \in DOMAIN messages :
             \A i \in 1..Len(messages[roomId]) :
                messages'[roomId][i].readBy = messages[roomId][i].readBy
       /\ \A owner \in Users : \A peer \in Users \ {owner} :
             UnreadCount(owner, peer)' = UnreadCount(owner, peer)
    ]_vars

\* C12: when a message:read by a reader changes the readBy of a message that
\* another user wrote, every connected socket of the writer receives a
\* message:read event carrying that message id.
C12_ReadReceiptReachesAuthor ==
  (lastOp.op = "message:read" /\ lastOp.wrote) =>
     LET arr == messages[lastOp.roomId]
         k == FindMessage(arr, lastOp.messageId)
     IN  arr[k].from # sockets[lastOp.socket] =>
           \A s \in DOMAIN sockets :
              sockets[s] = arr[k].from =>
                \E e \in emitted : /\ e.to = s
                                   /\ e.ev = "message:read"
                                   /\ e.data.messageId = lastOp.messageId

\* C13: the conversation key is symmetric: the key computed for (user1, user2)
\* is the key computed for (user2, user1).
C13_KeySymmetric ==
  lastOp.op = "getRoomId" => lastOp.roomId = getRoomId(lastOp.user2, lastOp.user1)

\* a key computed for a pair given in descending order, which the sort swaps
C13_Witness ==
  /\ lastOp.op = "getRoomId"
  /\ StrLess(lastOp.user2, lastOp.user1)
  /\ lastOp.roomId = <<100, 109, 58>> \o lastOp.user2 \o <<58, 58>> \o lastOp.user1

\* C14: a conversation of a user with itself is rejected: no join returns a
\* key for the pair (u, u), no send whose recipient is the sender is
\* acknowledged with success, no message with from = to is stored, and no
\* dm:message event carries one.
C14_SelfConversationRejected ==
  /\ lastOp.op = "dm:join" =>
        ~(lastOp.success /\ \E u \in Users : lastOp.roomId = getRoomId(u, u))
  /\ (lastOp.op = "dm:message" /\ lastOp.success) =>
        lastOp.message.to # lastOp.message.from
  /\ \A roomId \in DOMAIN messages :
        \A i \in 1..Len(messages[roomId]) :
           messages[roomId][i].to # messages[roomId][i].from
  /\ \A e \in emitted : e.ev = "dm:message" => e.data.to # e.data.from

\* a message that has a text or a media reference
HasContent(m) == Truthy(m.text) \/ Truthy(m.media)

\* C15: a send with neither text nor media is rejected: no such send is
\* acknowledged with success, no such message is stored, no dm:message event
\* carries one, and a send answered with a failure emits no event at all.
C15_EmptySendRejected ==
  /\ \A roomId \in DOMAIN sentLog :
        \A i \in 1..Len(sentLog[roomId]) : HasContent(sentLog[roomId][i])
  /\ \A roomId \in DOMAIN messages :
        \A i \in 1..Len(messages[roomId]) : HasContent(messages[roomId][i])
  /\ \A e \in emitted : e.ev = "dm:message" => HasContent(e.data)
  /\ (lastOp.op = "dm:message" /\ ~lastOp.success) => emitted = {}

\* C16: a successful send delivers the stored message to every connected
\* socket of the sender and of the recipient: each of them receives a
\* dm:message event carrying the message.
C16_DeliveredToAllSockets ==
  (lastOp.op = "dm:message" /\ lastOp.success) =>
     \A s \in DOMAIN sockets :
        sockets[s] \in {lastOp.message.from, lastOp.message.to} =>
          \E e \in emitted : /\ e.to = s
                             /\ e.ev = "dm:message"
                             /\ e.data = lastOp.message

\* C17: a successful send emits a notification:message event to every socket
\* of the recipient that is connected when the send is handled.
C17_NotificationToRecipient ==
  (lastOp.op = "dm:message" /\ lastOp.success) =>
     \A s \in DOMAIN sockets :
        sockets[s] = lastOp.message.to =>
          \E e \in emitted : /\ e.to = s
                             /\ e.ev = "notification:message"
                             /\ e.data.from = lastOp.message.from

\* what a chat summary keeps of a message
Snapshot(m) == [text |-> m.text, from |-> m.from, timestamp |-> m.timestamp]

\* owner's chat summary for peer has m as its last message
SummaryReflects(owner, peer, m) ==
  LET userChats == GetOr(chats, owner, <<>>)
      k == FindChat(userChats, peer)
  IN  k # 0 /\ userChats[k].lastMessage = Snapshot(m)

\* C18: delivery comes after persistence and after both summary updates:
\* whenever a dm:message event has been emitted, its message is stored in the
\* conversation and the summaries of the sender and of the recipient have it
\* as their last message.
C18_PersistedBeforeDelivery ==
  \A e \in emitted :
     e.ev = "dm:message" =>
       /\ Includes(GetOr(messages, getRoomId(e.data.from, e.data.to), <<>>), e.data)
       /\ SummaryReflects(e.data.from, e.data.to, e.data)
       /\ SummaryReflects(e.data.to, e.data.from, e.data)

\* messages.json and chats.json agree on a conversation: owner has a summary
\* for peer exactly if the conversation has a stored message, and the
\* summary's last message is the conversation's last stored message
StoreConsistent ==
  \A owner \in Users : \A peer \in Users \ {owner} :
     LET arr == GetOr(messages, getRoomId(owner, peer), <<>>)
     IN  IF arr = <<>>
         THEN FindChat(GetOr(chats, owner, <<>>), peer) = 0
         ELSE SummaryReflects(owner, peer, arr[Len(arr)])

\* C19: a send that fails while writing answers with a failure, emits no
\* event to any socket, and leaves messages.json and chats.json agreeing: no
\* stored message without its two summary updates and no summary update
\* without its stored message.
C19_FailedSendLeavesNothing ==
  (lastOp.op = "dm:message" /\ ~lastOp.success
     /\ lastOp.error = "Failed to send message") =>
       /\ emitted = {}
       /\ StoreConsistent

\* C20: a call:offer makes the caller's socket receive an error event exactly
\* if the callee has no connected socket; if the callee has one, the offer is
\* emitted to a socket of the callee with the caller as its from.
C20_OfferErrorIffOffline ==
  lastOp.op = "call:offer" =>
     LET live == \E x \in DOMAIN sockets : sockets[x] = lastOp.to
     IN  /\ (\E e \in emitted : e.to = lastOp.socket /\ e.ev = "call:error") <=> ~live
         /\ live => \E e \in emitted : /\ e.ev = "call:offer"
                                       /\ sockets[e.to] = lastOp.to
                                       /\ e.data.from = sockets[lastOp.socket]

\* C21: a join by a viewer returns the stored messages of the conversation
\* in stored order, leaving out exactly those whose deletedFor contains the
\* viewer (a message deleted for everyone is no longer stored).
C21_JoinReturnsVisible ==
  lastOp.op = "dm:join" =>
     lastOp.messages =
       VisibleTo(GetOr(messages, lastOp.roomId, <<>>), sockets[lastOp.socket])

\* C22: the conversation key is injective on unordered pairs: two pairs of
\* usernames that get the same key are the same unordered pair.
C22_KeyInjective ==
  (lastOp.op = "getRoomId" /\ lastOp.roomId1 = lastOp.roomId2) =>
     {lastOp.pair1[1], lastOp.pair1[2]} = {lastOp.pair2[1], lastOp.pair2[2]}

\* C23: the chat list of every owner is ordered by lastMessage.timestamp
\* descending, and summaries with equal timestamps are ordered by peer
\* username ascending.
C23_ChatListSorted ==
  \A owner \in DOMAIN chats :
     LET list == ChatListOf(chats, activeUsers, owner)
     IN  \A i, j \in 1..Len(list) :
            i < j =>
              \/ list[i].lastMessage.timestamp > list[j].lastMessage.timestamp
              \/ /\ list[i].lastMessage.timestamp = list[j].lastMessage.timestamp
                 /\ StrLess(list[i].username, list[j].username)

\* C24: a dm:delete that names a room with no stored conversation, or a
\* message id that no message of the room has, is answered with a not-found
\* failure, leaves messages.json as it was and emits no event: a delete is
\* acknowledged with success only if the room existed and held the id, and
\* a refused delete is a not-found that changes and emits nothing.
C24_DeleteUnknownNotFound ==
  [][(lastOp'.op = "dm:delete" /\ now' = now) =>
       IF lastOp'.success
       THEN /\ Has(messages, lastOp'.roomId)
            /\ lastOp'.messageId \in IdsIn(lastOp'.roomId)
       ELSE /\ lastOp'.error \in {"Room not found", "Message not found"}
            /\ messages' = messages
            /\ emitted' = {}
    ]_vars

\* a delete of an absent id was refused in a room that has a stored message
\* and a joined socket
C24_Witness ==
  /\ lastOp.op = "dm:delete"
  /\ ~lastOp.success
  /\ lastOp.error = "Message not found"
  /\ Has(messages, RoomAB)
  /\ Len(messages[RoomAB]) > 0
  /\ \E s \in DOMAIN sockets : RoomAB \in rooms[s]

\* C25: an online user:status event for a user is emitted only by the
\* connection of that user's first socket: when one has been emitted, the
\* user has exactly one connected socket.
C25_OnlineOnlyAtFirstSocket ==
  \A e \in emitted :
     (e.ev = "user:status" /\ e.data.status = "online") =>
        Cardinality({s \in DOMAIN sockets : sockets[s] = e.data.username}) = 1

\* C26: an answer, candidate or end signal addressed to a user who has no
\* connected socket is dropped: the handler emits no event to any socket.
C26_SignalToOfflineDropped ==
  (/\ lastOp.op \in CallEvents \ {"call:offer", "video:offer"}
   /\ ~\E x \in DOMAIN sockets : sockets[x] = lastOp.to) => emitted = {}

\* an answer was sent to a user who had connected and disconnected again
C26_Witness ==
  /\ lastOp.op = "call:answer"
  /\ Has(lastSeen, lastOp.to)
  /\ ~\E x \in DOMAIN sockets : sockets[x] = lastOp.to
  /\ emitted = {}

\* owner's unreadCount for peer in a given chats.json content
UnreadCountIn(store, owner, peer) ==
  LET userChats == GetOr(store, owner, <<>>)
      k == FindChat(userChats, peer)
  IN  IF k = 0 THEN 0 ELSE userChats[k].unreadCount

\* owner's summary for peer in a given chats.json content has m as lastMessage
SummaryReflectsIn(store, owner, peer, m) ==
  LET userChats == GetOr(store, owner, <<>>)
      k == FindChat(userChats, peer)
  IN  k # 0 /\ userChats[k].lastMessage = Snapshot(m)

C28_ClearRemovesBothSummaries ==
  (lastOp.op = "chat:clear" /\ lastOp.success) =>
     LET username == sockets[lastOp.socket]
         otherUser == lastOp.otherUser
     IN  /\ ~Has(messages, getRoomId(username, otherUser))
         /\ FindChat(GetOr(chats, username, <<>>), otherUser) = 0
         /\ FindChat(GetOr(chats, otherUser, <<>>), username) = 0

C31_WriteAllOrNothing ==
  [][call'.op = "writeJSON" =>
       LET filePath == call'.filePath
       IN  /\ ~call'.threw => files'[filePath] = Stringify(call'.data)
           /\ call'.threw => files'[filePath] = files[filePath]
           /\ ~Has(files', TempPath(filePath))]_vars

\* the part of C31 about the data file alone
C31_TargetAllOrNothing ==
  [][call'.op = "writeJSON" =>
       LET filePath == call'.filePath
       IN  /\ ~call'.threw => files'[filePath] = Stringify(call'.data)
           /\ call'.threw => files'[filePath] = files[filePath]]_vars


\* C32: every entry of the chat list computed for a user is a conversation
\* that user is one of the two participants of.
C32_ChatListOwnConversations ==
  lastOp.op = "getUserChatList" =>
     \A i \in 1..Len(lastOp.chatList) :
        Includes(RoomUsers(lastOp.chatList[i].roomId), lastOp.username)


\* C33: a dm:delete sent by a user who is not one of the two users named by
\* the supplied room id changes no stored message and emits no event.
C33_OutsiderChangesNothing ==
  [][(/\ lastOp'.op = "dm:delete"
      /\ ~Includes(RoomUsers(RoomAB), sockets[lastOp'.socket]))
       => (messages' = messages /\ emitted' = {})]_vars


\* C34: a dm:delete event whose forEveryone is true is emitted only when
\* the room stores no message with the event's id any more.
C34_EventFlagTruthful ==
  (lastOp.op = "dm:delete" /\ lastOp.success) =>
     \A e \in emitted :
        (e.ev = "dm:delete" /\ e.data.forEveryone)
          => e.data.messageId \notin IdsIn(lastOp.roomId)


\* C35: a dm:message that is acknowledged appends one message to one
\* conversation and leaves every stored message of every conversation as
\* it was; a dm:message that is refused leaves messages.json as it was.
C35_SendOnlyAppends ==
  [][(lastOp'.op = "dm:message" /\ now' = now) =>
       IF lastOp'.success
       THEN \E roomId \in DOMAIN messages' :
               messages' = PushMessage(messages, roomId, lastOp'.message)
       ELSE messages' = messages]_vars


\* C36: users.json never holds two accounts whose usernames are equal
\* ignoring case, and every register request answered 201 has its username
\* in users.json.
C36_RegisterUniqueAndKept ==
  /\ \A i, j \in 1..Len(users) :
        ToLowerCase(users[i].username) = ToLowerCase(users[j].username) => i = j
  /\ \A req \in DOMAIN requests :
        requests[req].status = 201 =>
          \E i \in 1..Len(users) : users[i].username = requests[req].username


\* C37: the lastMessage of every summary of an owner's chat list is a
\* message that the conversation stores and that is not deleted for the
\* owner.
C37_LastMessageStoredAndVisible ==
  \A owner \in DOMAIN chats :
     LET list == ChatListOf(chats, activeUsers, owner)
     IN  \A i \in 1..Len(list) :
            LET arr == GetOr(messages, getRoomId(owner, list[i].username), <<>>)
            IN  \E k \in 1..Len(arr) :
                   /\ arr[k].from = list[i].lastMessage.from
                   /\ arr[k].text = list[i].lastMessage.text
                   /\ arr[k].timestamp = list[i].lastMessage.timestamp
                   /\ ~Includes(arr[k].deletedFor, owner)


\* C38: a dm:delete with forEveryone sent by the author of the messages
\* that have the given id leaves the conversation holding exactly its other
\* messages, unchanged and in the same order.
C38_HardDeleteRemovesExactlyId ==
  [][(/\ lastOp'.op = "dm:delete"
      /\ now' = now
      /\ lastOp'.success
      /\ lastOp'.forEveryone
      /\ \E i \in 1..Len(messages[lastOp'.roomId]) :
            messages[lastOp'.roomId][i].id = lastOp'.messageId
      /\ \A i \in 1..Len(messages[lastOp'.roomId]) :
            messages[lastOp'.roomId][i].id = lastOp'.messageId
              => messages[lastOp'.roomId][i].from = sockets[lastOp'.socket])
       => messages' = [messages EXCEPT ![lastOp'.roomId] =
                         SelectSeq(@, LAMBDA m : m.id # lastOp'.messageId)]]_vars


\* C39: updateJSON makes at most maxRetries attempts; when it returns, the
\* file holds the update function's result applied once to the data the
\* file held when it was called, and that is the value returned; when it
\* throws, maxRetries attempts failed and the file holds what it held.
C39_UpdateRetries ==
  call.op = "updateJSON" =>
     /\ call.attempts <= maxRetries
     /\ call.pc = "loop" => call.attempts < maxRetries
     /\ call.pc = "returned" =>
          /\ call.attempts < maxRetries
          /\ call.result = ApplyUpdate(call.fn, Parse(call.before))
          /\ files[call.filePath] = Stringify(call.result)
     /\ call.pc = "threw" =>
          /\ call.attempts = maxRetries
          /\ files[call.filePath] = call.before

\* the same for the calls during which every read of the file succeeded
C39_UpdateRetriesReadOk ==
  (call.op = "updateJSON" /\ ~call.readFailed) =>
     /\ call.attempts <= maxRetries
     /\ call.pc = "loop" => call.attempts < maxRetries
     /\ call.pc = "returned" =>
          /\ call.attempts < maxRetries
          /\ call.result = ApplyUpdate(call.fn, Parse(call.before))
          /\ files[call.filePath] = Stringify(call.result)
     /\ call.pc = "threw" =>
          /\ call.attempts = maxRetries
          /\ files[call.filePath] = call.before

====
